---- MODULE Spec2Model ----
(***************************************************************************)
(* Model of the multi-agent-observability hook scripts of purrfessor/coach *)
(* (plugins/multi-agent-observability/hooks/scripts).                      *)
(*                                                                         *)
(* Python strings are sequences of one-character strings, so that the      *)
(* regular-expression searches of utils/validation.py are computed         *)
(* character by character, as re.search computes them.                     *)
(***************************************************************************)
EXTENDS Integers, Sequences, FiniteSets

VARIABLES
    tool_name,    \* validator call: the tool_name argument (a JSON value)
    tool_input,   \* validator call: the tool_input argument (a JSON value)
    v_fn,         \* validator call: the function that was called
    verdict,      \* validator call: what the call returned or raised
    v_pc,         \* validator call: "ready" before the call, "done" after
    script,       \* hook process: the script that runs
    stdin,        \* hook process: the content of standard input
    env,          \* hook process: the environment variables and the plugin directory
    args,         \* hook process: the command-line arguments
    pc,           \* hook process: the position in main()
    hook_data,    \* hook process: what read_stdin_json returned
    last_outcome, \* hook process: what the server did with the latest request
    health_result,\* hook process: what the latest check_server_health() did
    send_result,  \* hook process: what send_event() did
    requests,     \* hook process: the HTTP requests issued so far, in order
    stdout,       \* hook process: the lines printed to standard output
    stderr,       \* hook process: the lines printed to standard error
    exit_code,    \* hook process: the exit status, NotExited while it runs
    sa_args,      \* source_app call: the function called, its arguments and environment
    sa_result,    \* source_app call: what the call returned or raised
    sa_pc         \* source_app call: "ready" before the call, "done" after

validatorVars == <<tool_name, tool_input, v_fn, verdict, v_pc>>

sourceAppVars == <<sa_args, sa_result, sa_pc>>

hookVars ==
  <<script, stdin, env, args, pc, hook_data, last_outcome, health_result,
    send_result, requests, stdout, stderr, exit_code>>

vars ==
  <<tool_name, tool_input, v_fn, verdict, v_pc,
    script, stdin, env, args, pc, hook_data, last_outcome, health_result,
    send_result, requests, stdout, stderr, exit_code,
    sa_args, sa_result, sa_pc>>

(***************************************************************************)
(* Bounds of the enumerated inputs.                                        *)
(***************************************************************************)
\* the longest command built from CmdTokens, in tokens
MaxCmdTokens == 3
\* the longest file path built from PathTokens, in tokens
MaxPathTokens == 3
\* the longest session identifier passed to get_truncated_session_id
MaxIdLen == 10
\* the largest display length passed to get_truncated_session_id
MaxLength == 10
\* the longest repository name built from NameTokens, in tokens
MaxNameTokens == 3

(***************************************************************************)
(* Python values.                                                          *)
(***************************************************************************)
\* A JSON value other than an object: its kind and, for a string, its text.
JNull == [k |-> "null", s |-> <<>>]
JNum == [k |-> "num", s |-> <<>>]
JList == [k |-> "list", s |-> <<>>]
JStr(x) == [k |-> "str", s |-> x]
\* A key that a mapping does not hold.
Absent == [k |-> "absent", s |-> <<>>]

\* A tool_input: a mapping with its "command" and "file_path" entries, or
\* any other JSON value.
ToolInputDict(c, p) == [k |-> "dict", s |-> <<>>, command |-> c, file_path |-> p]
ToolInputOther(v) == [k |-> v.k, s |-> v.s, command |-> Absent, file_path |-> Absent]

\* Optional[str]
None == [isNone |-> TRUE, s |-> <<>>]
Some(x) == [isNone |-> FALSE, s |-> x]

\* What a call did: it returned the pair (flag, reason), or it raised exc.
Return(flag, reason) == [out |-> "return", flag |-> flag, reason |-> reason, exc |-> ""]
Raise(exc) == [out |-> "raise", flag |-> FALSE, reason |-> None, exc |-> exc]
NoCall == [out |-> "none", flag |-> FALSE, reason |-> None, exc |-> ""]

RECURSIVE Flatten(_)
Flatten(ts) == IF ts = <<>> THEN <<>> ELSE Head(ts) \o Flatten(Tail(ts))

(***************************************************************************)
(* The pattern tables of utils/validation.py, as their source text.        *)
(***************************************************************************)
DANGEROUS_RM_PATTERNS ==
  << <<"r","m","\\","s","+","-","r","f","\\","s","+","/">>,
     <<"r","m","\\","s","+","-","r","f","\\","s","+","~">>,
     <<"r","m","\\","s","+","-","r","f","\\","s","+","\\","*">>,
     <<"r","m","\\","s","+","-","r","f","\\","s","+","\\",".","\\",".">>,
     <<"r","m","\\","s","+","-","f","r","\\","s","+","/">>,
     <<"r","m","\\","s","+","-","f","r","\\","s","+","~">>,
     <<"r","m","\\","s","+","-","f","r","\\","s","+","\\","*">>,
     <<"r","m","\\","s","+","-","f","r","\\","s","+","\\",".","\\",".">> >>

SAFE_RM_DIRECTORIES ==
  << <<"/","t","m","p","/">>,
     <<"/","v","a","r","/","t","m","p","/">>,
     <<"t","r","e","e","s","/">>,
     <<"\\",".","c","a","c","h","e","/">>,
     <<"n","o","d","e","_","m","o","d","u","l","e","s","/">>,
     <<"_","_","p","y","c","a","c","h","e","_","_","/">>,
     <<"\\",".","p","y","t","e","s","t","_","c","a","c","h","e","/">>,
     <<"d","i","s","t","/">>,
     <<"b","u","i","l","d","/">> >>

SENSITIVE_FILE_PATTERNS ==
  << <<"\\",".","e","n","v","$">>,
     <<"\\",".","e","n","v","\\",".","l","o","c","a","l","$">>,
     <<"\\",".","e","n","v","\\",".","p","r","o","d","u","c","t","i","o","n","$">>,
     <<"c","r","e","d","e","n","t","i","a","l","s","\\",".","j","s","o","n","$">>,
     <<"s","e","c","r","e","t","s","\\",".","j","s","o","n","$">>,
     <<"\\",".","p","e","m","$">>,
     <<"\\",".","k","e","y","$">>,
     <<"i","d","_","r","s","a">>,
     <<"i","d","_","e","d","2","5","5","1","9">> >>

ALLOWED_SENSITIVE_PATTERNS ==
  << <<"\\",".","e","n","v","\\",".","s","a","m","p","l","e","$">>,
     <<"\\",".","e","n","v","\\",".","e","x","a","m","p","l","e","$">>,
     <<"\\",".","e","n","v","\\",".","t","e","m","p","l","a","t","e","$">> >>

(***************************************************************************)
(* re.search, for the pattern syntax the tables use: a literal character,  *)
(* an escaped character, \s+ and $.                                        *)
(***************************************************************************)
UpperLetters ==
  <<"A","B","C","D","E","F","G","H","I","J","K","L","M",
    "N","O","P","Q","R","S","T","U","V","W","X","Y","Z">>
LowerLetters ==
  <<"a","b","c","d","e","f","g","h","i","j","k","l","m",
    "n","o","p","q","r","s","t","u","v","w","x","y","z">>

\* str.lower() of one character
LowerOf ==
  [c \in {UpperLetters[i] : i \in 1..Len(UpperLetters)} |->
     LowerLetters[CHOOSE i \in 1..Len(UpperLetters) : UpperLetters[i] = c]]
Lower(c) == IF c \in DOMAIN LowerOf THEN LowerOf[c] ELSE c

\* the characters \s matches
Whitespace == {" ", "\t", "\n", "\r", "\f"}

\* re.compile: the pattern text as a sequence of atoms
RECURSIVE Compile(_)
Compile(p) ==
  IF p = <<>> THEN <<>>
  ELSE IF p[1] = "\\" /\ Len(p) >= 3 /\ p[2] = "s" /\ p[3] = "+"
       THEN <<[t |-> "ws+", c |-> ""]>> \o Compile(SubSeq(p, 4, Len(p)))
  ELSE IF p[1] = "\\" /\ Len(p) >= 2
       THEN <<[t |-> "lit", c |-> p[2]]>> \o Compile(SubSeq(p, 3, Len(p)))
  ELSE IF p[1] = "$"
       THEN <<[t |-> "end", c |-> ""]>> \o Compile(Tail(p))
  ELSE <<[t |-> "lit", c |-> p[1]]>> \o Compile(Tail(p))

\* a literal atom against one character of the subject
CharMatches(c, x, ignorecase) ==
  IF ignorecase THEN Lower(c) = Lower(x) ELSE c = x

\* Do the atoms re[k..] match s from position i on?  $ (without MULTILINE)
\* matches at the end of s and just before a newline that ends s.
RECURSIVE MatchAt(_, _, _, _, _)
MatchAt(re, k, s, i, ignorecase) ==
  IF k > Len(re) THEN TRUE
  ELSE LET a == re[k] IN
    CASE a.t = "lit" ->
           /\ i <= Len(s)
           /\ CharMatches(a.c, s[i], ignorecase)
           /\ MatchAt(re, k + 1, s, i + 1, ignorecase)
      [] a.t = "ws+" ->
           \E n \in 1..(Len(s) + 1 - i) :
              /\ \A j \in i..(i + n - 1) : s[j] \in Whitespace
              /\ MatchAt(re, k + 1, s, i + n, ignorecase)
      [] a.t = "end" ->
           /\ \/ i = Len(s) + 1
              \/ i = Len(s) /\ s[i] = "\n"
           /\ MatchAt(re, k + 1, s, i, ignorecase)

\* the tables, compiled
DangerousRe == [k \in DOMAIN DANGEROUS_RM_PATTERNS |-> Compile(DANGEROUS_RM_PATTERNS[k])]
SafeRe == [k \in DOMAIN SAFE_RM_DIRECTORIES |-> Compile(SAFE_RM_DIRECTORIES[k])]
SensitiveRe == [k \in DOMAIN SENSITIVE_FILE_PATTERNS |-> Compile(SENSITIVE_FILE_PATTERNS[k])]
AllowedRe == [k \in DOMAIN ALLOWED_SENSITIVE_PATTERNS |-> Compile(ALLOWED_SENSITIVE_PATTERNS[k])]

\* re.search(pattern, s, flags) is not None, for a compiled pattern
Search(re, s, ignorecase) ==
  \E i \in 1..(Len(s) + 1) : MatchAt(re, 1, s, i, ignorecase)

(***************************************************************************)
(* utils/validation.py                                                     *)
(***************************************************************************)
DangerousPrefix ==
  <<"D","a","n","g","e","r","o","u","s"," ","r","m"," ","c","o","m","m","a","n","d"," ",
    "d","e","t","e","c","t","e","d",":"," ","m","a","t","c","h","e","s"," ",
    "p","a","t","t","e","r","n"," ","'">>
SensitivePrefix ==
  <<"S","e","n","s","i","t","i","v","e"," ","f","i","l","e"," ","a","c","c","e","s","s"," ",
    "d","e","t","e","c","t","e","d",":"," ">>

\* (mutation of IsSafe: the safe directories searched with re.IGNORECASE)
IsSafe_IgnoreCase(command) ==
  \E j \in 1..Len(SAFE_RM_DIRECTORIES) : Search(SafeRe[j], command, TRUE)

\* the inner loop of is_dangerous_rm_command: the safe-directory patterns are
\* searched without re.IGNORECASE
IsSafe(command) ==
  \E j \in 1..Len(SAFE_RM_DIRECTORIES) : Search(SafeRe[j], command, FALSE)

\* (mutation of DangerousFrom: the loop keeps going after a match, so that
\* the last matching pattern is the one reported)
RECURSIVE DangerousFrom_LastMatch(_, _)
DangerousFrom_LastMatch(command, k) ==
  IF k > Len(DANGEROUS_RM_PATTERNS) THEN Return(FALSE, None)
  ELSE LET rest == DangerousFrom_LastMatch(command, k + 1) IN
       IF rest.flag THEN rest
       ELSE IF Search(DangerousRe[k], command, TRUE) /\ ~IsSafe(command)
            THEN Return(TRUE, Some(DangerousPrefix \o DANGEROUS_RM_PATTERNS[k] \o <<"'">>))
       ELSE Return(FALSE, None)

\* the outer loop of is_dangerous_rm_command, from pattern k on
RECURSIVE DangerousFrom(_, _)
DangerousFrom(command, k) ==
  IF k > Len(DANGEROUS_RM_PATTERNS) THEN Return(FALSE, None)
  ELSE IF Search(DangerousRe[k], command, TRUE) /\ ~IsSafe(command)
       THEN Return(TRUE, Some(DangerousPrefix \o DANGEROUS_RM_PATTERNS[k] \o <<"'">>))
  ELSE DangerousFrom(command, k + 1)

\* is_dangerous_rm_command(command) for any Python value: re.search raises
\* TypeError for a subject that is not a string
is_dangerous_rm_command(command) ==
  IF command.k # "str" THEN Raise("TypeError")
  ELSE DangerousFrom(command.s, 1)

MatchesAllowed(file_path) ==
  \E j \in 1..Len(ALLOWED_SENSITIVE_PATTERNS) :
     Search(AllowedRe[j], file_path, TRUE)

MatchesSensitive(file_path) ==
  \E j \in 1..Len(SENSITIVE_FILE_PATTERNS) :
     Search(SensitiveRe[j], file_path, TRUE)

\* (mutation of is_sensitive_file_access: the denylist tested before the
\* allowlist)
is_sensitive_file_access_DenyFirst(file_path) ==
  IF file_path.k # "str" THEN Raise("TypeError")
  ELSE IF MatchesSensitive(file_path.s)
       THEN Return(TRUE, Some(SensitivePrefix \o file_path.s))
  ELSE Return(FALSE, None)

is_sensitive_file_access(file_path) ==
  IF file_path.k # "str" THEN Raise("TypeError")
  ELSE IF MatchesAllowed(file_path.s) THEN Return(FALSE, None)
  ELSE IF MatchesSensitive(file_path.s)
       THEN Return(TRUE, Some(SensitivePrefix \o file_path.s))
  ELSE Return(FALSE, None)

BashName == JStr(<<"B","a","s","h">>)
ReadName == JStr(<<"R","e","a","d">>)
WriteName == JStr(<<"W","r","i","t","e">>)
EditName == JStr(<<"E","d","i","t">>)

\* mapping.get(key, ""): the default when the key is absent, the stored value
\* otherwise
Got(v) == IF v.k = "absent" THEN JStr(<<>>) ELSE v

\* (mutation of ValidateFileBranch: the block returned without its reason)
ValidateFileBranch_NoReason(name, input) ==
  IF name \in {ReadName, WriteName, EditName}
  THEN IF input.k # "dict" THEN Raise("AttributeError")
       ELSE LET r == is_sensitive_file_access(Got(input.file_path)) IN
            IF r.out = "raise" THEN r
            ELSE IF r.flag THEN Return(FALSE, None)
            ELSE Return(TRUE, None)
  ELSE Return(TRUE, None)

\* the Read/Write/Edit branch and the final return of validate_tool_use;
\* tool_input.get raises AttributeError when tool_input is not a mapping
ValidateFileBranch(name, input) ==
  IF name \in {ReadName, WriteName, EditName}
  THEN IF input.k # "dict" THEN Raise("AttributeError")
       ELSE LET r == is_sensitive_file_access(Got(input.file_path)) IN
            IF r.out = "raise" THEN r
            ELSE IF r.flag THEN Return(FALSE, r.reason)
            ELSE Return(TRUE, None)
  ELSE Return(TRUE, None)

\* (mutation of validate_tool_use: the tool name compared without regard to
\* case)
validate_tool_use_AnyCase(name, input) ==
  IF name.k = "str" /\ [i \in 1..Len(name.s) |-> Lower(name.s[i])] = <<"b","a","s","h">>
  THEN IF input.k # "dict" THEN Raise("AttributeError")
       ELSE LET r == is_dangerous_rm_command(Got(input.command)) IN
            IF r.out = "raise" THEN r
            ELSE IF r.flag THEN Return(FALSE, r.reason)
            ELSE ValidateFileBranch(name, input)
  ELSE ValidateFileBranch(name, input)

\* validate_tool_use(tool_name, tool_input): (is_allowed, block_reason)
validate_tool_use(name, input) ==
  IF name = BashName
  THEN IF input.k # "dict" THEN Raise("AttributeError")
       ELSE LET r == is_dangerous_rm_command(Got(input.command)) IN
            IF r.out = "raise" THEN r
            ELSE IF r.flag THEN Return(FALSE, r.reason)
            ELSE ValidateFileBranch(name, input)
  ELSE ValidateFileBranch(name, input)

(***************************************************************************)
(* The inputs of the validator calls.                                      *)
(***************************************************************************)
SeqsUpTo(S, n) == UNION {[1..m -> S] : m \in 0..n}

CmdTokens ==
  { <<"r","m"," ","-","r","f"," ">>,
    <<"r","m"," ","-","f","r"," ">>,
    <<"R","M"," ","-","R","f"," ">>,
    <<"r","m","\t","-","r","f","\n">>,
    <<"r","m"," ","-","r"," ">>,
    <<"r","m","-","r","f"," ">>,
    <<"/">>,
    <<"~">>,
    <<"*">>,
    <<".",".">>,
    <<"t","m","p","/">> }

\* a delete, its target, and what follows the target
DeleteHeads ==
  { <<"r","m"," ","-","r","f"," ">>,
    <<"r","m"," ","-","f","r"," ">>,
    <<"r","m"," "," ","-","R","F","\t">> }
DeleteTargets ==
  { <<"/">>, <<"~">>, <<"*">>, <<".",".">>, <<".","/">>, <<"x","/">> }
DeleteTails ==
  { <<>>,
    <<"t","m","p","/","x">>,
    <<"v","a","r","/","t","m","p","/">>,
    <<" ","#"," ","t","r","e","e","s","/">>,
    <<".","c","a","c","h","e","/">>,
    <<"n","o","d","e","_","m","o","d","u","l","e","s","/">>,
    <<"_","_","p","y","c","a","c","h","e","_","_","/">>,
    <<".","p","y","t","e","s","t","_","c","a","c","h","e","/">>,
    <<"d","i","s","t","/">>,
    <<"b","u","i","l","d","/">>,
    <<"T","M","P","/">>,
    <<"X","c","a","c","h","e","/">>,
    <<"B","u","i","l","d","/">>,
    <<"d","i","s","t">>,
    <<" ","t","r","e","e","s">> }

\* two deletes in one command line
DoubleDeletes ==
  {h1 \o t1 \o <<" ", ";", " ">> \o h2 \o t2 :
     h1 \in DeleteHeads, t1 \in DeleteTargets, h2 \in DeleteHeads, t2 \in DeleteTargets}

Commands ==
  {Flatten(ts) : ts \in SeqsUpTo(CmdTokens, MaxCmdTokens)}
  \cup {h \o t \o l : h \in DeleteHeads, t \in DeleteTargets, l \in DeleteTails}
  \cup DoubleDeletes

PathTokens ==
  { <<"x","/">>,
    <<".","e","n","v">>,
    <<".","E","N","V">>,
    <<".","l","o","c","a","l">>,
    <<".","p","r","o","d","u","c","t","i","o","n">>,
    <<".","s","a","m","p","l","e">>,
    <<"c","r","e","d","e","n","t","i","a","l","s",".","j","s","o","n">>,
    <<".","p","e","m">>,
    <<"i","d","_","r","s","a">>,
    <<"\n">> }

\* a directory part, a file name ending, and what follows the ending
PathStems ==
  { <<>>, <<"x","/">>, <<"i","d","_","r","s","a","/">>,
    <<"I","D","_","E","D","2","5","5","1","9">> }
PathEndings ==
  { <<".","e","n","v">>,
    <<".","e","n","v",".","l","o","c","a","l">>,
    <<".","e","n","v",".","p","r","o","d","u","c","t","i","o","n">>,
    <<"c","r","e","d","e","n","t","i","a","l","s",".","j","s","o","n">>,
    <<"s","e","c","r","e","t","s",".","j","s","o","n">>,
    <<".","p","e","m">>,
    <<".","k","e","y">>,
    <<"i","d","_","r","s","a">>,
    <<"i","d","_","e","d","2","5","5","1","9">>,
    <<".","e","n","v",".","s","a","m","p","l","e">>,
    <<".","e","n","v",".","e","x","a","m","p","l","e">>,
    <<".","e","n","v",".","t","e","m","p","l","a","t","e">>,
    <<".","E","n","v",".","E","x","a","m","p","l","e">>,
    <<"S","E","C","R","E","T","S",".","J","S","O","N">>,
    <<"x","e","n","v">>,
    <<"s","e","c","r","e","t","s","x","j","s","o","n">>,
    <<".","k","e","y","s">> }
PathTrailers ==
  { <<>>, <<"\n">>, <<"\n","\n">>, <<".","b","a","k">> }

ProbePaths == {a \o e \o z : a \in PathStems, e \in PathEndings, z \in PathTrailers}

Paths == {Flatten(ts) : ts \in SeqsUpTo(PathTokens, MaxPathTokens)} \cup ProbePaths

ToolNames ==
  { BashName, ReadName, WriteName, EditName,
    JStr(<<"b","a","s","h">>), JStr(<<"M","u","l","t","i","E","d","i","t">>),
    JStr(<<>>), JNull }

\* values that are not strings
Malformed == {JNull, JNum, JList}

SmallCommands ==
  { JStr(<<"r","m"," ","-","r","f"," ","/">>),
    JStr(<<"r","m"," ","-","r","f"," ","/","t","m","p","/","x">>),
    JStr(<<"l","s">>) }
SmallPaths ==
  { JStr(<<"x","/",".","e","n","v">>),
    JStr(<<".","e","n","v",".","s","a","m","p","l","e">>),
    JStr(<<"i","n","d","e","x",".","t","s">>) }

SmallInputs ==
  {ToolInputDict(c, p) : c \in SmallCommands \cup Malformed \cup {Absent},
                         p \in SmallPaths \cup Malformed \cup {Absent}}
  \cup {ToolInputOther(v) : v \in Malformed \cup SmallCommands}

ValidatorInputs ==
  {<<BashName, ToolInputDict(JStr(c), Absent)>> : c \in Commands}
  \cup {<<ReadName, ToolInputDict(Absent, JStr(p))>> : p \in Paths}
  \cup {<<n, ToolInputDict(Absent, JStr(p))>> : n \in {WriteName, EditName}, p \in ProbePaths}
  \cup (ToolNames \X SmallInputs)

(***************************************************************************)
(* utils/server.py: the event client.                                      *)
(***************************************************************************)
\* What the server does with one request: the connection fails before the
\* request is sent (the name does not resolve, the connection is refused or
\* times out), no response arrives within the timeout, the connection is
\* closed without a response, or a response with a status and a body arrives.
NoResponse(net) == [net |-> net, status |-> 0, body |-> "none"]
Response(status, body) == [net |-> "response", status |-> status, body |-> body]

ConnectFailures == {"dns_failure", "refused", "connect_timeout"}

GetOutcomes ==
  {NoResponse(n) : n \in ConnectFailures \cup {"response_timeout", "disconnected"}}
  \cup {Response(st, "text") : st \in {200, 201, 204, 404, 500}}

PostOutcomes ==
  {NoResponse(n) : n \in ConnectFailures \cup {"response_timeout", "disconnected"}}
  \cup { Response(200, "json"), Response(200, "not_json"), Response(201, "json"),
         Response(204, "empty"), Response(400, "text"), Response(404, "text"),
         Response(500, "text") }

\* the classes an exception is an instance of
Bases(exc) ==
  CASE exc = "HTTPError" -> {"HTTPError", "URLError", "OSError"}
    [] exc = "URLError" -> {"URLError", "OSError"}
    [] exc = "TimeoutError" -> {"TimeoutError", "OSError"}
    [] exc = "RemoteDisconnected" ->
         {"RemoteDisconnected", "ConnectionResetError", "ConnectionError", "OSError"}
    [] exc = "ConnectionError" -> {"ConnectionError", "OSError"}
    [] exc = "JSONDecodeError" -> {"JSONDecodeError", "ValueError"}
    [] exc = "FileNotFoundError" -> {"FileNotFoundError", "OSError"}
    [] exc = "PermissionError" -> {"PermissionError", "OSError"}
    [] OTHER -> {exc}

\* an except clause naming `classes` catches exc
Catches(classes, exc) == Bases(exc) \cap classes # {}

\* What a call of the client did: it returned value, or it raised exc (an
\* HTTPError, and the ValueError made from one, carry the status and body).
Returned(value) ==
  [out |-> "return", value |-> value, exc |-> "", status |-> 0, body |-> "none"]
Raised(exc, status, body) ==
  [out |-> "raise", value |-> "none", exc |-> exc, status |-> status, body |-> body]
NotCalled ==
  [out |-> "none", value |-> "none", exc |-> "", status |-> 0, body |-> "none"]
HealthNotCalled ==
  [out |-> "none", value |-> FALSE, exc |-> "", status |-> 0, body |-> "none"]

\* urllib.request.urlopen(request, timeout=...): a failure to connect or to
\* send the request is raised as URLError; a timeout or a closed connection
\* while waiting for the response is raised as it is; a status outside 2xx is
\* raised as HTTPError; a 2xx response is returned.
urlopen(o) ==
  IF o.net \in ConnectFailures THEN Raised("URLError", 0, "none")
  ELSE IF o.net = "response_timeout" THEN Raised("TimeoutError", 0, "none")
  ELSE IF o.net = "disconnected" THEN Raised("RemoteDisconnected", 0, "none")
  ELSE IF 200 <= o.status /\ o.status < 300 THEN Returned(o)
  ELSE Raised("HTTPError", o.status, o.body)

\* send_event(...): the POST to /events and its try/except.  The clauses are
\* tried in the order written: except URLError, then except HTTPError.
send_event(o) ==
  LET r == urlopen(o) IN
  IF r.out = "return"
  THEN IF r.value.body = "json" THEN Returned("parsed_body")
       ELSE Raised("JSONDecodeError", 0, "none")
  ELSE IF Catches({"URLError"}, r.exc) THEN Raised("ConnectionError", 0, "none")
  ELSE IF Catches({"HTTPError"}, r.exc) THEN Raised("ValueError", r.status, r.body)
  ELSE r

\* check_server_health(): the GET to /health and its try/except
check_server_health(o) ==
  LET r == urlopen(o) IN
  IF r.out = "return" THEN Returned(r.value.status = 200)
  ELSE IF Catches({"URLError", "HTTPError"}, r.exc) THEN Returned(FALSE)
  ELSE r

\* The value json.loads gave for standard input: its kind, its truth value,
\* and, for a mapping, the entries the scripts read (tool_result: whether the
\* key is there; transcript_path: absent, or what the file system holds at
\* the path).
HookData(k, truthy, session_id, name, input, result, transcript) ==
  [k |-> k, truthy |-> truthy, session_id |-> session_id, tool_name |-> name,
   tool_input |-> input, tool_result |-> result, transcript_path |-> transcript]
HookValue(k, truthy) ==
  HookData(k, truthy, Absent, Absent, ToolInputOther(Absent), FALSE, "absent")
EmptyDict == HookValue("dict", FALSE)
NotRead == HookValue("unread", FALSE)

\* read_stdin_json(): {} for empty or blank input, {} and a warning for input
\* that json.loads rejects, the parsed value otherwise
read_stdin_json(input) ==
  IF input.kind \in {"empty", "blank"} THEN [data |-> EmptyDict, warning |-> FALSE]
  ELSE IF input.kind = "not_json" THEN [data |-> EmptyDict, warning |-> TRUE]
  ELSE [data |-> input.value, warning |-> FALSE]

(***************************************************************************)
(* The four scripts.                                                       *)
(***************************************************************************)
NotExited == 0 - 1

Line(kind, exc, reason) == [kind |-> kind, exc |-> exc, reason |-> reason]

\* sys.exit(code) after printing out and err
Finish(code, out, err) ==
  /\ pc' = "exited"
  /\ exit_code' = code
  /\ stdout' = stdout \o out
  /\ stderr' = stderr \o err

\* an exception that nothing catches: the traceback is printed and the
\* interpreter exits with status 1
Crash(exc) == Finish(1, <<>>, <<Line("traceback", exc, None)>>)

\* mapping.get(key, default) for an entry of hook_data
GetOr(v, default) == IF v = Absent THEN default ELSE v

Unknown == JStr(<<"u","n","k","n","o","w","n">>)

NoEnvelope ==
  [source_app |-> "none", session_id |-> Absent, hook_event_type |-> "none",
   payload |-> {}, chat |-> "None"]

Request(method, path, result, envelope) ==
  [method |-> method, path |-> path, result |-> result, envelope |-> envelope]

\* how a call ended, for the request log
HealthEnded(r) == IF r.out = "raise" THEN r.exc ELSE IF r.value THEN "True" ELSE "False"
SendEnded(r) == IF r.out = "raise" THEN r.exc ELSE "returned"

\* main(): hook_data = read_stdin_json()
ReadStdin ==
  /\ pc = "start"
  /\ LET r == read_stdin_json(stdin) IN
     /\ hook_data' = r.data
     /\ stderr' = IF r.warning THEN Append(stderr, Line("stdin_warning", "JSONDecodeError", None))
                  ELSE stderr
  /\ pc' = "main"
  /\ UNCHANGED <<script, stdin, env, args, last_outcome, health_result, send_result,
                 requests, stdout, exit_code>>
  /\ UNCHANGED validatorVars
  /\ UNCHANGED sourceAppVars

\* pre_tool_use.py main(), after the read
PreToolUse_Validate ==
  /\ script = "pre_tool_use" /\ pc = "main"
  /\ \/ /\ ~hook_data.truthy
        /\ Finish(0, <<>>, <<>>)
        /\ UNCHANGED validatorVars
     \/ /\ hook_data.truthy /\ hook_data.k # "dict"
        /\ Crash("AttributeError")
        /\ UNCHANGED validatorVars
     \/ /\ hook_data.truthy /\ hook_data.k = "dict"
        /\ LET name == GetOr(hook_data.tool_name, JStr(<<>>))
               input == IF hook_data.tool_input.k = "absent"
                        THEN ToolInputDict(Absent, Absent)
                        ELSE hook_data.tool_input
               v == validate_tool_use(name, input)
           IN /\ tool_name' = name
              /\ tool_input' = input
              /\ v_fn' = "validate_tool_use"
              /\ verdict' = v
              /\ v_pc' = "done"
              /\ IF v.out = "raise" THEN Crash(v.exc)
                 ELSE IF ~v.flag THEN Finish(2, <<>>, <<Line("deny", "", v.reason)>>)
                 ELSE Finish(0, <<>>, <<>>)
  /\ UNCHANGED <<script, stdin, env, args, hook_data, last_outcome, health_result,
                 send_result, requests>>
  /\ UNCHANGED sourceAppVars

\* the payload send_event.py builds for an event type, as its keys
PayloadKeys(event_type, data) ==
  CASE event_type \in {"PreToolUse", "PostToolUse"} ->
         {"tool_name", "tool_input"}
         \cup (IF data.tool_result THEN {"tool_result"} ELSE {})
    [] event_type = "UserPromptSubmit" -> {"user_prompt"}
    [] event_type \in {"Stop", "SubagentStop"} -> {"reason", "stop_type"}
    [] event_type = "Notification" -> {"message", "notification_type"}
    [] OTHER -> {"hook_data"}

\* the chat send_event.py reads with --add-chat
SendEventChat(add_chat, transcript) ==
  IF add_chat /\ transcript \in {"readable", "unreadable"}
  THEN (IF transcript = "readable" THEN "lines" ELSE "empty")
  ELSE "None"

\* the chat stop.py reads with --add-chat
StopChat(add_chat, transcript) ==
  IF add_chat /\ transcript # "absent"
  THEN (IF transcript = "readable" THEN "lines" ELSE "empty")
  ELSE "None"

\* the envelope each script posts
Envelope ==
  CASE script = "send_event" ->
         [source_app |-> IF args.source_app THEN "argument" ELSE "get_source_app",
          session_id |-> GetOr(hook_data.session_id, Unknown),
          hook_event_type |-> args.event_type,
          payload |-> PayloadKeys(args.event_type, hook_data),
          chat |-> SendEventChat(args.add_chat, hook_data.transcript_path)]
    [] script = "stop" ->
         [source_app |-> "get_source_app",
          session_id |-> GetOr(hook_data.session_id, Unknown),
          hook_event_type |-> "Stop",
          payload |-> {"reason", "stop_type"},
          chat |-> StopChat(args.add_chat, hook_data.transcript_path)]
    [] OTHER ->
         [source_app |-> "get_source_app",
          session_id |-> GetOr(hook_data.session_id, Unknown),
          hook_event_type |-> "SessionStart",
          payload |-> {"cwd", "permission_mode"},
          chat |-> "None"]

\* send_event.py and stop.py main(), from the read to the health check
Sender_Prepare ==
  /\ script \in {"send_event", "stop"} /\ pc = "main"
  /\ \/ /\ ~hook_data.truthy
        /\ Finish(0, <<>>, <<>>)
     \/ /\ hook_data.truthy /\ hook_data.k # "dict"
        /\ Crash("AttributeError")
     \/ /\ hook_data.truthy /\ hook_data.k = "dict"
        /\ pc' = "health"
        /\ UNCHANGED <<stdout, stderr, exit_code>>
  /\ UNCHANGED <<script, stdin, env, args, hook_data, last_outcome, health_result,
                 send_result, requests>>
  /\ UNCHANGED validatorVars
  /\ UNCHANGED sourceAppVars

\* os.environ.get('OBSERVABILITY_AUTO_START', 'false').lower() == 'true'
AutoStart(e) ==
  LET v == GetOr(e.auto_start, JStr(<<"f","a","l","s","e">>)).s IN
  [i \in 1..Len(v) |-> Lower(v[i])] = <<"t","r","u","e">>

\* session_start.py main(), from the read to the first health check
SessionStart_Prepare ==
  /\ script = "session_start" /\ pc = "main"
  /\ \/ /\ hook_data.k # "dict"
        /\ Crash("AttributeError")
     \/ /\ hook_data.k = "dict"
        /\ pc' = IF AutoStart(env) THEN "ensure_check" ELSE "health"
        /\ UNCHANGED <<stdout, stderr, exit_code>>
  /\ UNCHANGED <<script, stdin, env, args, hook_data, last_outcome, health_result,
                 send_result, requests>>
  /\ UNCHANGED validatorVars
  /\ UNCHANGED sourceAppVars

\* one call of check_server_health(), answered by the server with o
HealthRequest(o) ==
  LET r == check_server_health(o) IN
  /\ last_outcome' = o
  /\ health_result' = r
  /\ requests' = Append(requests, Request("GET", "/health", HealthEnded(r), NoEnvelope))

\* ensure_server_running(): the check that the server already runs
EnsureServer_FirstCheck ==
  /\ script = "session_start" /\ pc = "ensure_check"
  /\ \E o \in GetOutcomes :
       /\ HealthRequest(o)
       /\ LET r == check_server_health(o) IN
          \/ /\ r.out = "raise"
             /\ Crash(r.exc)
          \/ /\ r.out = "return"
             /\ pc' = IF r.value \/ env.ensure_script # "exists"
                      THEN "health" ELSE "ensure_run"
             /\ UNCHANGED <<stdout, stderr, exit_code>>
  /\ UNCHANGED <<script, stdin, env, args, hook_data, send_result>>
  /\ UNCHANGED validatorVars
  /\ UNCHANGED sourceAppVars

\* ensure_server_running(): subprocess.run(['bash', ensure_script]) and the
\* sleep; a timeout or an OSError ends the function
EnsureServer_RunScript ==
  /\ script = "session_start" /\ pc = "ensure_run"
  /\ \E ran \in {"completed", "TimeoutExpired", "OSError"} :
       pc' = IF ran = "completed" THEN "ensure_recheck" ELSE "health"
  /\ UNCHANGED <<script, stdin, env, args, hook_data, last_outcome, health_result,
                 send_result, requests, stdout, stderr, exit_code>>
  /\ UNCHANGED validatorVars
  /\ UNCHANGED sourceAppVars

\* ensure_server_running(): return check_server_health()
EnsureServer_SecondCheck ==
  /\ script = "session_start" /\ pc = "ensure_recheck"
  /\ \E o \in GetOutcomes :
       /\ HealthRequest(o)
       /\ LET r == check_server_health(o) IN
          \/ /\ r.out = "raise"
             /\ Crash(r.exc)
          \/ /\ r.out = "return"
             /\ pc' = "health"
             /\ UNCHANGED <<stdout, stderr, exit_code>>
  /\ UNCHANGED <<script, stdin, env, args, hook_data, send_result>>
  /\ UNCHANGED validatorVars
  /\ UNCHANGED sourceAppVars

\* (mutation of CheckHealth: the check repeated while the server is down)
CheckHealth_Retry ==
  /\ script \in {"send_event", "stop", "session_start"} /\ pc = "health"
  /\ \E o \in GetOutcomes :
       /\ HealthRequest(o)
       /\ LET r == check_server_health(o) IN
          \/ /\ r.out = "raise"
             /\ Crash(r.exc)
          \/ /\ r.out = "return"
             /\ pc' = IF r.value THEN "post" ELSE "health"
             /\ UNCHANGED <<stdout, stderr, exit_code>>
  /\ UNCHANGED <<script, stdin, env, args, hook_data, send_result>>
  /\ UNCHANGED validatorVars
  /\ UNCHANGED sourceAppVars

\* (mutation of CheckHealth: the event is sent whatever the check returned)
CheckHealth_PostAnyway ==
  /\ script \in {"send_event", "stop", "session_start"} /\ pc = "health"
  /\ \E o \in GetOutcomes :
       /\ HealthRequest(o)
       /\ LET r == check_server_health(o) IN
          \/ /\ r.out = "raise"
             /\ Crash(r.exc)
          \/ /\ r.out = "return"
             /\ pc' = "post"
             /\ UNCHANGED <<stdout, stderr, exit_code>>
  /\ UNCHANGED <<script, stdin, env, args, hook_data, send_result>>
  /\ UNCHANGED validatorVars
  /\ UNCHANGED sourceAppVars

\* main(): if not check_server_health(): sys.exit(0)
CheckHealth ==
  /\ script \in {"send_event", "stop", "session_start"} /\ pc = "health"
  /\ \E o \in GetOutcomes :
       /\ HealthRequest(o)
       /\ LET r == check_server_health(o) IN
          \/ /\ r.out = "raise"
             /\ Crash(r.exc)
          \/ /\ r.out = "return" /\ ~r.value
             /\ Finish(0, IF script = "session_start"
                          THEN <<Line("server_not_running", "", None)>> ELSE <<>>,
                       <<>>)
          \/ /\ r.out = "return" /\ r.value
             /\ pc' = "post"
             /\ UNCHANGED <<stdout, stderr, exit_code>>
  /\ UNCHANGED <<script, stdin, env, args, hook_data, send_result>>
  /\ UNCHANGED validatorVars
  /\ UNCHANGED sourceAppVars

\* session_id[:8] raises TypeError unless session_id is a string or a list
Sliceable(v) == v.k \in {"str", "list"}

\* (mutation of PostEvent: a send that failed is tried again)
PostEvent_Retry ==
  /\ script \in {"send_event", "stop", "session_start"} /\ pc = "post"
  /\ \E o \in PostOutcomes :
       LET r == send_event(o) IN
       /\ last_outcome' = o
       /\ send_result' = r
       /\ requests' = Append(requests, Request("POST", "/events", SendEnded(r), Envelope))
       /\ \/ /\ r.out = "return" /\ script = "send_event"
             /\ Finish(0, <<>>, IF env.debug THEN <<Line("debug_result", "", None)>> ELSE <<>>)
          \/ /\ r.out = "return" /\ script = "stop"
             /\ Finish(0, <<>>, <<>>)
          \/ /\ r.out = "return" /\ script = "session_start"
             /\ IF Sliceable(GetOr(hook_data.session_id, Unknown))
                THEN Finish(0, <<Line("session_started", "", None)>>, <<>>)
                ELSE Crash("TypeError")
          \/ /\ r.out = "raise" /\ Catches({"ConnectionError"}, r.exc)
             /\ pc' = "post"
             /\ UNCHANGED <<stdout, stderr, exit_code>>
          \/ /\ r.out = "raise" /\ ~Catches({"ConnectionError"}, r.exc)
             /\ Catches({"ValueError"}, r.exc)
             /\ Finish(0, <<>>, IF script = "send_event"
                                THEN <<Line("server_error_warning", r.exc, None)>>
                                ELSE <<>>)
          \/ /\ r.out = "raise" /\ ~Catches({"ConnectionError", "ValueError"}, r.exc)
             /\ Crash(r.exc)
  /\ UNCHANGED <<script, stdin, env, args, hook_data, health_result>>
  /\ UNCHANGED validatorVars
  /\ UNCHANGED sourceAppVars

\* main(): the call of send_event(...) and what follows it
PostEvent ==
  /\ script \in {"send_event", "stop", "session_start"} /\ pc = "post"
  /\ \E o \in PostOutcomes :
       LET r == send_event(o) IN
       /\ last_outcome' = o
       /\ send_result' = r
       /\ requests' = Append(requests, Request("POST", "/events", SendEnded(r), Envelope))
       /\ \/ /\ r.out = "return" /\ script = "send_event"
             /\ Finish(0, <<>>, IF env.debug THEN <<Line("debug_result", "", None)>> ELSE <<>>)
          \/ /\ r.out = "return" /\ script = "stop"
             /\ Finish(0, <<>>, <<>>)
          \/ /\ r.out = "return" /\ script = "session_start"
             /\ IF Sliceable(GetOr(hook_data.session_id, Unknown))
                THEN Finish(0, <<Line("session_started", "", None)>>, <<>>)
                ELSE Crash("TypeError")
          \/ /\ r.out = "raise" /\ Catches({"ConnectionError"}, r.exc)
             /\ Finish(0, <<>>, <<>>)
          \/ /\ r.out = "raise" /\ ~Catches({"ConnectionError"}, r.exc)
             /\ Catches({"ValueError"}, r.exc)
             /\ Finish(0, <<>>, IF script = "send_event"
                                THEN <<Line("server_error_warning", r.exc, None)>>
                                ELSE <<>>)
          \/ /\ r.out = "raise" /\ ~Catches({"ConnectionError", "ValueError"}, r.exc)
             /\ Crash(r.exc)
  /\ UNCHANGED <<script, stdin, env, args, hook_data, health_result>>
  /\ UNCHANGED validatorVars
  /\ UNCHANGED sourceAppVars

(***************************************************************************)
(* utils/source_app.py                                                     *)
(***************************************************************************)
\* What a call did: it returned the string value, or it raised exc.
AppReturn(value) == [out |-> "return", value |-> value, exc |-> ""]
AppRaise(exc) == [out |-> "raise", value |-> <<>>, exc |-> exc]
NoAppCall == [out |-> "none", value |-> <<>>, exc |-> ""]

UnknownText == <<"u","n","k","n","o","w","n">>
DotGit == <<".","g","i","t">>

Min(a, b) == IF a <= b THEN a ELSE b
Max(a, b) == IF a >= b THEN a ELSE b

\* s[:n]: the first n characters, or all but the last -n for a negative n
SliceTo(s, n) ==
  IF n >= 0 THEN SubSeq(s, 1, Min(n, Len(s)))
  ELSE SubSeq(s, 1, Max(0, Len(s) + n))

\* str.strip()
Strip(s) ==
  LET kept == {i \in 1..Len(s) : s[i] \notin Whitespace} IN
  IF kept = {} THEN <<>>
  ELSE SubSeq(s, CHOOSE i \in kept : \A j \in kept : i <= j,
                 CHOOSE i \in kept : \A j \in kept : i >= j)

\* s.split(sep)[-1] and os.path.basename(s): what follows the last sep
LastSegment(s, sep) ==
  LET at == {i \in 1..Len(s) : s[i] = sep} IN
  IF at = {} THEN s
  ELSE SubSeq(s, (CHOOSE i \in at : \A j \in at : i >= j) + 1, Len(s))

\* s.replace(old, new): every occurrence of old, from the left
RECURSIVE Replace(_, _, _)
Replace(s, old, new) ==
  IF Len(s) < Len(old) THEN s
  ELSE IF SubSeq(s, 1, Len(old)) = old
       THEN new \o Replace(SubSeq(s, Len(old) + 1, Len(s)), old, new)
  ELSE <<s[1]>> \o Replace(Tail(s), old, new)

\* What subprocess.run(['git', 'remote', 'get-url', 'origin'], ...) did: it
\* completed with a return code and an output, or it raised.
GitCompleted(returncode, out) == [kind |-> "completed", returncode |-> returncode, stdout |-> out]
GitRaised(exc) == [kind |-> exc, returncode |-> 0, stdout |-> <<>>]

\* the fall-back of get_source_app: the directory name, or 'unknown'
DirectoryName(cwd) ==
  IF cwd # <<>> /\ LastSegment(cwd, "/") # <<>>
  THEN AppReturn(LastSegment(cwd, "/"))
  ELSE AppReturn(UnknownText)

\* get_source_app(), given what git did, CLAUDE_PROJECT_DIR (Absent when it
\* is not set) and os.getcwd()
get_source_app(git, project_dir, getcwd) ==
  LET cwd == IF project_dir = Absent THEN getcwd ELSE project_dir.s IN
  IF git.kind = "completed"
  THEN IF git.returncode = 0 /\ Strip(git.stdout) # <<>>
       THEN LET url == Strip(git.stdout)
                repo_name == Replace(LastSegment(url, "/"), DotGit, <<>>)
            IN IF repo_name # <<>> THEN AppReturn(repo_name) ELSE DirectoryName(cwd)
       ELSE DirectoryName(cwd)
  ELSE IF Catches({"TimeoutExpired", "FileNotFoundError", "OSError"}, git.kind)
       THEN DirectoryName(cwd)
  ELSE AppRaise(git.kind)

\* def get_truncated_session_id(session_id, length=8)
DefaultLength == 8

\* (mutation of get_truncated_session_id: only None gets the placeholder)
get_truncated_session_id_NoneOnly(session_id, length) ==
  IF session_id = JNull THEN AppReturn(UnknownText)
  ELSE AppReturn(SliceTo(session_id.s, length))

\* get_truncated_session_id(session_id, length), for None or a string
get_truncated_session_id(session_id, length) ==
  IF session_id = JNull \/ session_id.s = <<>> THEN AppReturn(UnknownText)
  ELSE AppReturn(SliceTo(session_id.s, length))

\* get_agent_display_id(source_app, session_id)
get_agent_display_id(source_app, session_id) ==
  AppReturn(source_app \o <<":">> \o get_truncated_session_id(session_id, DefaultLength).value)

(***************************************************************************)
(* The inputs of the source_app calls.                                     *)
(***************************************************************************)
SessionIdText == <<"a","b","c","d","e","f","0","1","2","3","4","5">>

\* None, the empty string, and identifiers of every length up to MaxIdLen
TruncationIds ==
  {JNull} \cup {JStr(SubSeq(SessionIdText, 1, Min(n, Len(SessionIdText)))) : n \in 0..MaxIdLen}

Lengths == (0 - 2)..MaxLength

AppNames == { <<"a","p","p">>, <<"m","y","-","a","p","p">>, <<>> }

UrlPrefixes ==
  { <<"h","t","t","p","s",":","/","/","h","/","u","/">>,
    <<"g","i","t","@","h",":","u","/">>,
    <<>> }
NameTokens ==
  { <<"r","e","p","o">>, <<".","g","i","t">>, <<"h","u","b">>, <<"/">> }
UrlEndings == { <<"\n">>, <<" ","\n">> }

\* what git prints: a URL and a newline, or nothing
GitOutputs ==
  {u \o Flatten(ts) \o e :
     u \in UrlPrefixes, ts \in SeqsUpTo(NameTokens, MaxNameTokens), e \in UrlEndings}
  \cup {<<>>}

GitOutcomes ==
  {GitCompleted(0, o) : o \in GitOutputs}
  \cup { GitCompleted(2, <<>>),
         GitCompleted(128, <<"h","t","t","p","s",":","/","/","h","/","u","/","r","e","p","o","\n">>) }
  \cup {GitRaised(e) : e \in {"TimeoutExpired", "FileNotFoundError", "PermissionError"}}

\* CLAUDE_PROJECT_DIR: not set, or a path
ProjectDirs ==
  { Absent, JStr(<<>>), JStr(<<"/">>),
    JStr(<<"/","h","o","m","e","/","u","/","p","r","o","j">>),
    JStr(<<"/","h","o","m","e","/","u","/","p","r","o","j","/">>),
    JStr(<<"p","r","o","j">>) }
\* os.getcwd(): an absolute path
WorkingDirs == { <<"/">>, <<"/","w","/","c","w","d">> }

AppArgs(fn, session_id, length, source_app, git, project_dir, getcwd) ==
  [fn |-> fn, session_id |-> session_id, length |-> length, source_app |-> source_app,
   git |-> git, project_dir |-> project_dir, getcwd |-> getcwd]
NoAppArgs ==
  AppArgs("none", JNull, DefaultLength, <<>>, GitRaised("FileNotFoundError"), Absent, <<"/">>)

\* the calls; with CLAUDE_PROJECT_DIR set to the empty string the child
\* process cannot be started in it
SourceAppInputs ==
  {AppArgs("get_truncated_session_id", sid, n, <<>>, NoAppArgs.git, Absent, <<"/">>) :
     sid \in TruncationIds, n \in Lengths}
  \cup {AppArgs("get_agent_display_id", sid, DefaultLength, a, NoAppArgs.git, Absent, <<"/">>) :
          sid \in TruncationIds, a \in AppNames}
  \cup {a \in {AppArgs("get_source_app", JNull, DefaultLength, <<>>, g, d, w) :
                 g \in GitOutcomes, d \in ProjectDirs, w \in WorkingDirs} :
          a.project_dir = JStr(<<>>) => a.git = GitRaised("FileNotFoundError")}

SourceAppIdle ==
  /\ sa_args = NoAppArgs
  /\ sa_result = NoAppCall
  /\ sa_pc = "ready"

(***************************************************************************)
(* The inputs of the scripts.                                              *)
(***************************************************************************)
Stdin(kind, value) == [kind |-> kind, value |-> value]

\* JSON texts that are not objects: null, [], [1], 42, "x"
NonObjects ==
  { HookValue("null", FALSE), HookValue("list", FALSE), HookValue("list", TRUE),
    HookValue("num", TRUE), HookValue("str", TRUE) }

SessionIds ==
  { Absent, JNull, JNum,
    JStr(<<"a","b","c">>),
    JStr(<<"a","b","c","d","e","f","0","1","2","3">>) }

UnreadableStdin == {Stdin(k, NotRead) : k \in {"empty", "blank", "not_json"}}

\* the texts NaN, Infinity and -Infinity: not JSON, yet json.loads takes them
\* for numbers
NotJsonYetParsed == {Stdin("nan", HookValue("num", TRUE))}

\* what pre_tool_use.py can be given
PreToolUseStdin ==
  UnreadableStdin \cup NotJsonYetParsed
  \cup {Stdin("json", v) : v \in NonObjects \cup {EmptyDict}}
  \cup {Stdin("json", HookData("dict", TRUE, Absent, n, i, FALSE, "absent")) :
          n \in ToolNames \cup {Absent},
          i \in SmallInputs \cup {ToolInputOther(Absent)}}

\* what the event-sending scripts can be given
SenderStdin ==
  UnreadableStdin \cup NotJsonYetParsed
  \cup {Stdin("json", v) : v \in NonObjects \cup {EmptyDict}}
  \cup {Stdin("json", HookData("dict", TRUE, sid, Absent, ToolInputOther(Absent), res, tr)) :
          sid \in SessionIds, res \in BOOLEAN,
          tr \in {"absent", "no_file", "readable", "unreadable"}}

NoArgs == [event_type |-> "none", source_app |-> FALSE, add_chat |-> FALSE]
NoEnv == [auto_start |-> Absent, ensure_script |-> "no_plugin_root", debug |-> FALSE]

EventTypes ==
  {"PostToolUse", "UserPromptSubmit", "SubagentStop", "Notification", "SessionStart"}

HookInputs ==
  {[script |-> "pre_tool_use", stdin |-> s, args |-> NoArgs, env |-> NoEnv] :
      s \in PreToolUseStdin}
  \cup {[script |-> "send_event", stdin |-> s,
         args |-> [event_type |-> t, source_app |-> a, add_chat |-> c],
         env |-> [auto_start |-> Absent, ensure_script |-> "no_plugin_root", debug |-> d]] :
           s \in SenderStdin, t \in EventTypes, a \in BOOLEAN, c \in BOOLEAN, d \in BOOLEAN}
  \cup {[script |-> "stop", stdin |-> s,
         args |-> [event_type |-> "none", source_app |-> FALSE, add_chat |-> c],
         env |-> NoEnv] : s \in SenderStdin, c \in BOOLEAN}
  \cup {[script |-> "session_start", stdin |-> s, args |-> NoArgs,
         env |-> [auto_start |-> a, ensure_script |-> e, debug |-> FALSE]] :
           s \in SenderStdin,
           a \in {Absent, JStr(<<"t","r","u","e">>), JStr(<<"T","r","u","e">>),
                  JStr(<<"f","a","l","s","e">>)},
           e \in {"no_plugin_root", "no_file", "exists"}}

ValidatorIdle ==
  /\ tool_name = JNull
  /\ tool_input = ToolInputOther(Absent)
  /\ v_fn = "none"
  /\ verdict = NoCall
  /\ v_pc = "ready"

HookIdle ==
  /\ script = "none"
  /\ stdin = Stdin("empty", NotRead)
  /\ env = NoEnv
  /\ args = NoArgs
  /\ pc = "none"
  /\ hook_data = NotRead
  /\ last_outcome = NoResponse("none")
  /\ health_result = HealthNotCalled
  /\ send_result = NotCalled
  /\ requests = <<>>
  /\ stdout = <<>>
  /\ stderr = <<>>
  /\ exit_code = NotExited

\* one run of one script: a fresh process
Init ==
  /\ \E h \in HookInputs :
       /\ script = h.script
       /\ stdin = h.stdin
       /\ args = h.args
       /\ env = h.env
  /\ pc = "start"
  /\ hook_data = NotRead
  /\ last_outcome = NoResponse("none")
  /\ health_result = HealthNotCalled
  /\ send_result = NotCalled
  /\ requests = <<>>
  /\ stdout = <<>>
  /\ stderr = <<>>
  /\ exit_code = NotExited
  /\ ValidatorIdle
  /\ SourceAppIdle

Next ==
  \/ ReadStdin
  \/ PreToolUse_Validate
  \/ Sender_Prepare
  \/ SessionStart_Prepare
  \/ EnsureServer_FirstCheck
  \/ EnsureServer_RunScript
  \/ EnsureServer_SecondCheck
  \/ CheckHealth
  \/ PostEvent

Spec == Init /\ [][Next]_vars

(***************************************************************************)
(* Calls of the validator, one per behaviour: the arguments are drawn in   *)
(* the initial state and one of the three functions is applied to them.    *)
(***************************************************************************)
InitValidate ==
  /\ \E a \in ValidatorInputs : tool_name = a[1] /\ tool_input = a[2]
  /\ v_fn = "none"
  /\ verdict = NoCall
  /\ v_pc = "ready"
  /\ HookIdle
  /\ SourceAppIdle

Call_validate_tool_use ==
  /\ v_pc = "ready"
  /\ v_fn' = "validate_tool_use"
  /\ verdict' = validate_tool_use(tool_name, tool_input)
  /\ v_pc' = "done"
  /\ UNCHANGED <<tool_name, tool_input>>
  /\ UNCHANGED hookVars
  /\ UNCHANGED sourceAppVars

\* is_dangerous_rm_command(tool_input["command"]), called directly
Call_is_dangerous_rm_command ==
  /\ v_pc = "ready"
  /\ tool_input.k = "dict" /\ tool_input.command # Absent
  /\ v_fn' = "is_dangerous_rm_command"
  /\ verdict' = is_dangerous_rm_command(tool_input.command)
  /\ v_pc' = "done"
  /\ UNCHANGED <<tool_name, tool_input>>
  /\ UNCHANGED hookVars
  /\ UNCHANGED sourceAppVars

\* is_sensitive_file_access(tool_input["file_path"]), called directly
Call_is_sensitive_file_access ==
  /\ v_pc = "ready"
  /\ tool_input.k = "dict" /\ tool_input.file_path # Absent
  /\ v_fn' = "is_sensitive_file_access"
  /\ verdict' = is_sensitive_file_access(tool_input.file_path)
  /\ v_pc' = "done"
  /\ UNCHANGED <<tool_name, tool_input>>
  /\ UNCHANGED hookVars
  /\ UNCHANGED sourceAppVars

NextValidate ==
  \/ Call_validate_tool_use
  \/ Call_is_dangerous_rm_command
  \/ Call_is_sensitive_file_access

SpecValidate == InitValidate /\ [][NextValidate]_vars

(***************************************************************************)
(* Calls of utils/source_app.py, one per behaviour.                        *)
(***************************************************************************)
InitSourceApp ==
  /\ sa_args \in SourceAppInputs
  /\ sa_result = NoAppCall
  /\ sa_pc = "ready"
  /\ ValidatorIdle
  /\ HookIdle

Call_get_truncated_session_id ==
  /\ sa_pc = "ready" /\ sa_args.fn = "get_truncated_session_id"
  /\ sa_result' = get_truncated_session_id(sa_args.session_id, sa_args.length)
  /\ sa_pc' = "done"
  /\ UNCHANGED sa_args
  /\ UNCHANGED <<validatorVars, hookVars>>

Call_get_agent_display_id ==
  /\ sa_pc = "ready" /\ sa_args.fn = "get_agent_display_id"
  /\ sa_result' = get_agent_display_id(sa_args.source_app, sa_args.session_id)
  /\ sa_pc' = "done"
  /\ UNCHANGED sa_args
  /\ UNCHANGED <<validatorVars, hookVars>>

Call_get_source_app ==
  /\ sa_pc = "ready" /\ sa_args.fn = "get_source_app"
  /\ sa_result' = get_source_app(sa_args.git, sa_args.project_dir, sa_args.getcwd)
  /\ sa_pc' = "done"
  /\ UNCHANGED sa_args
  /\ UNCHANGED <<validatorVars, hookVars>>

NextSourceApp ==
  \/ Call_get_truncated_session_id
  \/ Call_get_agent_display_id
  \/ Call_get_source_app

SpecSourceApp == InitSourceApp /\ [][NextSourceApp]_vars

(***************************************************************************)
(* Properties of the validator.                                            *)
(***************************************************************************)
LowerStr(s) == [i \in 1..Len(s) |-> Lower(s[i])]
Contains(s, lit) == \E i \in 1..(Len(s) - Len(lit) + 1) : SubSeq(s, i, i + Len(lit) - 1) = lit
EndsWith(s, suf) == Len(s) >= Len(suf) /\ SubSeq(s, Len(s) - Len(suf) + 1, Len(s)) = suf
ContainsCI(s, lit) == Contains(LowerStr(s), lit)
EndsWithCI(s, suf) == EndsWith(LowerStr(s), suf)

\* s without the newline that ends it, if one does
StripNewline(s) ==
  IF Len(s) > 0 /\ s[Len(s)] = "\n" THEN SubSeq(s, 1, Len(s) - 1) ELSE s
EndsWithCIOrNewline(s, suf) == EndsWithCI(s, suf) \/ EndsWithCI(StripNewline(s), suf)

\* the safe-sandbox substrings, as plain text
SandboxSubstrings ==
  { <<"/","t","m","p","/">>,
    <<"/","v","a","r","/","t","m","p","/">>,
    <<"t","r","e","e","s","/">>,
    <<".","c","a","c","h","e","/">>,
    <<"n","o","d","e","_","m","o","d","u","l","e","s","/">>,
    <<"_","_","p","y","c","a","c","h","e","_","_","/">>,
    <<".","p","y","t","e","s","t","_","c","a","c","h","e","/">>,
    <<"d","i","s","t","/">>,
    <<"b","u","i","l","d","/">> }
\* the sensitive endings and name stems, and the allowed endings, as plain text
DenyEndings ==
  { <<".","e","n","v">>,
    <<".","e","n","v",".","l","o","c","a","l">>,
    <<".","e","n","v",".","p","r","o","d","u","c","t","i","o","n">>,
    <<"c","r","e","d","e","n","t","i","a","l","s",".","j","s","o","n">>,
    <<"s","e","c","r","e","t","s",".","j","s","o","n">>,
    <<".","p","e","m">>,
    <<".","k","e","y">> }
DenyStems ==
  { <<"i","d","_","r","s","a">>, <<"i","d","_","e","d","2","5","5","1","9">> }
AllowEndings ==
  { <<".","e","n","v",".","s","a","m","p","l","e">>,
    <<".","e","n","v",".","e","x","a","m","p","l","e">>,
    <<".","e","n","v",".","t","e","m","p","l","a","t","e">> }

\* c holds: rm, whitespace, -rf or -fr, whitespace, then /, ~, * or ..
\* (letters in either case)
HasRecursiveForceDelete(c) ==
  LET n == Len(c)
      lc == LowerStr(c)
      Blank(a, b) == \A x \in a..b : c[x] \in Whitespace
  IN \E i \in 1..n :
       /\ i + 1 <= n /\ lc[i] = "r" /\ lc[i + 1] = "m"
       /\ \E j \in (i + 3)..n :
            /\ Blank(i + 2, j - 1)
            /\ j + 2 <= n /\ lc[j] = "-"
            /\ <<lc[j + 1], lc[j + 2]>> \in {<<"r","f">>, <<"f","r">>}
            /\ \E k \in (j + 4)..n :
                 /\ Blank(j + 3, k - 1)
                 /\ \/ c[k] \in {"/", "~", "*"}
                    \/ k + 1 <= n /\ c[k] = "." /\ c[k + 1] = "."

HasSandboxSubstring(c) == \E d \in SandboxSubstrings : Contains(c, d)

ValidateDone == v_pc = "done" /\ v_fn = "validate_tool_use"
BashCall ==
  /\ ValidateDone /\ tool_name = BashName
  /\ tool_input.k = "dict" /\ Got(tool_input.command).k = "str"
FileCall ==
  /\ ValidateDone /\ tool_name \in {ReadName, WriteName, EditName}
  /\ tool_input.k = "dict" /\ Got(tool_input.file_path).k = "str"

Allowed == verdict = Return(TRUE, None)
Blocked == verdict.out = "return" /\ ~verdict.flag

\* C1: validate_tool_use('Bash', {'command': c}) blocks exactly when c holds a
\* recursive-force delete of /, ~, * or .. and none of the safe-sandbox
\* substrings; with a safe-sandbox substring anywhere in c it allows.
C1_BashBlockedIffDeleteOutsideSandbox ==
  BashCall =>
    LET c == Got(tool_input.command).s IN
    /\ Blocked <=> (HasRecursiveForceDelete(c) /\ ~HasSandboxSubstring(c))
    /\ Allowed <=> ~Blocked
    /\ HasSandboxSubstring(c) => Allowed

\* C1 witness: 'rm -rf / # trees/' has been validated and allowed
C1_Witness ==
  /\ BashCall
  /\ Got(tool_input.command).s =
       <<"r","m"," ","-","r","f"," ","/"," ","#"," ","t","r","e","e","s","/">>
  /\ Allowed

\* C2 as stated: for Read, Write and Edit, a path that ends in an allowed
\* ending is allowed; any other path is blocked exactly when it ends in a
\* sensitive ending or holds id_rsa or id_ed25519.
C2_FileBlockedIffSensitiveEnding ==
  FileCall =>
    LET p == Got(tool_input.file_path).s IN
    /\ Allowed <=> ~Blocked
    /\ IF \E a \in AllowEndings : EndsWithCI(p, a)
       THEN Allowed
       ELSE Blocked <=> \/ \E d \in DenyEndings : EndsWithCI(p, d)
                        \/ \E d \in DenyStems : ContainsCI(p, d)

\* C2 amended: the same, where "ends in" disregards letter case and one
\* newline that ends the path.
C2_FileBlockedIffSensitiveEndingOrNewline ==
  FileCall =>
    LET p == Got(tool_input.file_path).s IN
    /\ Allowed <=> ~Blocked
    /\ IF \E a \in AllowEndings : EndsWithCIOrNewline(p, a)
       THEN Allowed
       ELSE Blocked <=> \/ \E d \in DenyEndings : EndsWithCIOrNewline(p, d)
                        \/ \E d \in DenyStems : ContainsCI(p, d)

\* C2 witness: 'id_rsa/.env.sample' followed by a newline has been validated
\* for Read, Write or Edit and allowed
C2_Witness ==
  /\ FileCall
  /\ Got(tool_input.file_path).s =
       <<"i","d","_","r","s","a","/",".","e","n","v",".","s","a","m","p","l","e","\n">>
  /\ Allowed

\* C3: for a tool name other than exactly Bash, Read, Write or Edit the
\* verdict is allowed with no reason, whatever tool_input is.
C3_OtherToolsAllowed ==
  (ValidateDone /\ tool_name \notin {BashName, ReadName, WriteName, EditName})
    => Allowed

\* C3 witness: tool 'bash' with the command 'rm -rf /' has been validated
C3_Witness ==
  /\ ValidateDone
  /\ tool_name = JStr(<<"b","a","s","h">>)
  /\ tool_input.k = "dict"
  /\ tool_input.command = JStr(<<"r","m"," ","-","r","f"," ","/">>)
  /\ Allowed

\* the field the tool's rule reads is missing or malformed
FieldMissingOrMalformed ==
  \/ tool_input.k # "dict"
  \/ tool_name = BashName /\ tool_input.command \in Malformed \cup {Absent}
  \/ tool_name \in {ReadName, WriteName, EditName}
       /\ tool_input.file_path \in Malformed \cup {Absent}

\* C8: validate_tool_use never raises, and with the field missing or
\* malformed it allows with no reason.
C8_FailsOpenNeverRaises ==
  ValidateDone =>
    /\ verdict.out = "return"
    /\ FieldMissingOrMalformed => Allowed

\* C9: every verdict that validate_tool_use returns is (allowed, no reason)
\* or (blocked, a non-empty reason); is_dangerous_rm_command and
\* is_sensitive_file_access return (False, None) or (True, non-empty reason).
C9_VerdictShape ==
  (v_pc = "done" /\ verdict.out = "return") =>
    LET blocked == IF v_fn = "validate_tool_use" THEN ~verdict.flag ELSE verdict.flag IN
    /\ blocked <=> ~verdict.reason.isNone
    /\ blocked => Len(verdict.reason.s) > 0
    /\ ~blocked => verdict.reason = None

\* C9 witness: validate_tool_use has blocked a Write with a reason
C9_Witness ==
  /\ ValidateDone /\ tool_name = WriteName
  /\ Blocked /\ ~verdict.reason.isNone

(***************************************************************************)
(* Properties of the event client and of the scripts.                      *)
(***************************************************************************)
Senders == {"send_event", "stop", "session_start"}
Is2xx(o) == o.net = "response" /\ 200 <= o.status /\ o.status < 300

\* C4: send_event returns the parsed body for a 2xx response with a JSON
\* body, raises ValueError carrying the status and the body for a response
\* with any other status, and raises ConnectionError when no connection to
\* the server can be made.
C4_SendEventOutcomes ==
  send_result.out # "none" =>
    /\ (Is2xx(last_outcome) /\ last_outcome.body = "json")
         => send_result = Returned("parsed_body")
    /\ (last_outcome.net = "response" /\ ~Is2xx(last_outcome))
         => send_result = Raised("ValueError", last_outcome.status, last_outcome.body)
    /\ last_outcome.net \in ConnectFailures
         => (send_result.out = "raise" /\ send_result.exc = "ConnectionError")

\* the latest request was a health check
JustChecked == requests # <<>> /\ requests[Len(requests)].method = "GET"

\* C5: check_server_health returns True exactly when the response has status
\* 200, returns False for every other outcome, and never raises.
C5_HealthTrueIffStatus200 ==
  JustChecked =>
    /\ health_result.out = "return"
    /\ health_result.value <=> (last_outcome.net = "response" /\ last_outcome.status = 200)

\* C6: send_event.py, stop.py and session_start.py exit with status 0,
\* whatever standard input holds and whatever the server does.
C6_SendersExitZero ==
  (script \in Senders /\ pc = "exited") => exit_code = 0

\* C7: pre_tool_use.py exits with 0 or 2; with 2 exactly when
\* validate_tool_use blocked, after printing to stderr the deny decision with
\* the validator's reason; with 0 otherwise.
C7_PreCheckExitsZeroOrTwo ==
  (script = "pre_tool_use" /\ pc = "exited") =>
    /\ exit_code \in {0, 2}
    /\ exit_code = 2 <=> (v_pc = "done" /\ Blocked)
    /\ exit_code = 2 => stderr = <<Line("deny", "", verdict.reason)>>

\* the health checks issued so far
HealthChecks == Len(SelectSeq(requests, LAMBDA r : r.method = "GET"))

Posts == Len(SelectSeq(requests, LAMBDA r : r.method = "POST"))
LastRequest == requests[Len(requests)]

\* C11: an invocation issues at most one POST to /events; once the POST has
\* returned or failed it is the last request of the invocation, which has
\* exited: a failed POST is not tried again.
C11_OnePostNoRetry ==
  /\ Posts <= 1
  /\ Posts = 1 => /\ LastRequest.method = "POST"
                  /\ pc = "exited"

\* C11 witness: stop.py has exited after one health check and one POST that
\* failed
C11_Witness ==
  /\ script = "stop" /\ pc = "exited"
  /\ Len(requests) = 2 /\ Posts = 1
  /\ send_result.out = "raise"

\* every POST directly follows a health check that returned True
PostsFollowHealthy ==
  \A i \in 1..Len(requests) :
     requests[i].method = "POST" =>
       /\ i > 1
       /\ requests[i - 1].method = "GET"
       /\ requests[i - 1].result = "True"

\* the latest request was a health check and it returned False
JustCheckedFalse == JustChecked /\ LastRequest.result = "False"

C13_RejectionWarned ==
  ( /\ script = "send_event" /\ pc = "exited" /\ Posts = 1
    /\ last_outcome.net = "response" /\ ~Is2xx(last_outcome) )
    => /\ exit_code = 0
       /\ \E i \in 1..Len(stderr) : stderr[i].kind = "server_error_warning"

\* standard input is empty, blank or not JSON
MalformedStdin == stdin.kind \in {"empty", "blank", "not_json", "nan"}

\* C14: with standard input that is empty, blank or not JSON,
\* read_stdin_json returns {} and every script exits with 0: pre_tool_use.py
\* without blocking, send_event.py and stop.py without a request to the
\* server, session_start.py posting the session_id 'unknown'.
C14_MalformedStdinNeverFatal ==
  MalformedStdin =>
    /\ pc # "start" => hook_data = EmptyDict
    /\ pc = "exited" => exit_code = 0
    /\ script \in {"pre_tool_use", "send_event", "stop"} => requests = <<>>
    /\ script = "pre_tool_use" => v_pc = "ready"
    /\ Posts = 1 => LastRequest.envelope.session_id = Unknown

(***************************************************************************)
(* Letter case and rule order in the validator.                            *)
(***************************************************************************)
\* str.upper() of one character and of a string
UpperOf ==
  [c \in {LowerLetters[i] : i \in 1..Len(LowerLetters)} |->
     UpperLetters[CHOOSE i \in 1..Len(LowerLetters) : LowerLetters[i] = c]]
Upper(c) == IF c \in DOMAIN UpperOf THEN UpperOf[c] ELSE c
UpperStr(s) == [i \in 1..Len(s) |-> Upper(s[i])]

\* s in lower case, in upper case, and with only its first letter's case
\* changed
Recasings(s) ==
  { LowerStr(s), UpperStr(s),
    [i \in 1..Len(s) |-> IF i = 1 THEN (IF Upper(s[i]) = s[i] THEN Lower(s[i]) ELSE Upper(s[i]))
                         ELSE s[i]] }

\* the call returned the same decision as v
SameDecision(v) == v.out = verdict.out /\ v.flag = verdict.flag

\* C15: the verdict for a command, and for a file path, is the verdict for
\* each of its re-casings.
C15_CaseNeverChangesVerdict ==
  /\ BashCall =>
       \A c2 \in Recasings(Got(tool_input.command).s) :
          SameDecision(validate_tool_use(tool_name,
                                         ToolInputDict(JStr(c2), tool_input.file_path)))
  /\ FileCall =>
       \A p2 \in Recasings(Got(tool_input.file_path).s) :
          SameDecision(validate_tool_use(tool_name,
                                         ToolInputDict(tool_input.command, JStr(p2))))

\* the dangerous-delete patterns that match c, by their place in the list
MatchedPatterns(c) ==
  {k \in DOMAIN DANGEROUS_RM_PATTERNS : Search(DangerousRe[k], c, TRUE)}
FirstMatched(c) ==
  CHOOSE k \in MatchedPatterns(c) : \A j \in MatchedPatterns(c) : k <= j

\* C18: when validate_tool_use blocks a Bash command, the reason names the
\* first pattern of the dangerous-delete list that the command matches; when
\* it blocks a Read, Write or Edit, the reason holds the file_path verbatim.
C18_ReasonNamesFirstMatch ==
  /\ (BashCall /\ Blocked) =>
       LET c == Got(tool_input.command).s IN
       /\ MatchedPatterns(c) # {}
       /\ verdict.reason =
            Some(DangerousPrefix \o DANGEROUS_RM_PATTERNS[FirstMatched(c)] \o <<"'">>)
  /\ (FileCall /\ Blocked) =>
       /\ ~verdict.reason.isNone
       /\ Contains(verdict.reason.s, Got(tool_input.file_path).s)

\* C18 witness: 'rm -fr ~ ; rm -rf /' matches the first and the sixth
\* pattern and has been blocked
C18_Witness ==
  /\ BashCall /\ Blocked
  /\ Got(tool_input.command).s =
       <<"r","m"," ","-","f","r"," ","~"," ",";"," ","r","m"," ","-","r","f"," ","/">>
  /\ MatchedPatterns(Got(tool_input.command).s) = {1, 6}

(***************************************************************************)
(* Properties of utils/source_app.py.                                      *)
(***************************************************************************)
AppDone(fn) == sa_pc = "done" /\ sa_args.fn = fn

\* the first min(Len(s), n) characters of s
IsPrefixOfLength(v, s, n) ==
  /\ Len(v) = (IF Len(s) <= n THEN Len(s) ELSE n)
  /\ \A i \in 1..Len(v) : v[i] = s[i]

NoIdentifier(sid) == sid = JNull \/ sid.s = <<>>

\* C16: get_truncated_session_id(s, n) returns, for a non-empty s and n >= 0,
\* the first min(len(s), n) characters of s (s itself when it is shorter than
\* n, never more than n characters), and 'unknown' for an empty s or None;
\* get_agent_display_id(app, s) is app, ':' and the truncation of s to 8.
C16_TruncatedSessionId ==
  /\ AppDone("get_truncated_session_id") =>
       LET s == sa_args.session_id
           n == sa_args.length
           v == sa_result.value
       IN /\ sa_result.out = "return"
          /\ NoIdentifier(s) => v = <<"u","n","k","n","o","w","n">>
          /\ (~NoIdentifier(s) /\ n >= 0) =>
               /\ IsPrefixOfLength(v, s.s, n)
               /\ Len(s.s) < n => v = s.s
               /\ Len(v) <= n
  /\ AppDone("get_agent_display_id") =>
       LET s == sa_args.session_id
           v == sa_result.value
           k == Len(sa_args.source_app) + 1
       IN /\ sa_result.out = "return"
          /\ Len(v) > k
          /\ SubSeq(v, 1, k) = sa_args.source_app \o <<":">>
          /\ IF NoIdentifier(s)
             THEN SubSeq(v, k + 1, Len(v)) = <<"u","n","k","n","o","w","n">>
             ELSE IsPrefixOfLength(SubSeq(v, k + 1, Len(v)), s.s, 8)

\* C16 witness: get_truncated_session_id('abcdef0123', 8) has returned
\* 'abcdef01'
C16_Witness ==
  /\ AppDone("get_truncated_session_id")
  /\ sa_args.session_id = JStr(<<"a","b","c","d","e","f","0","1","2","3">>)
  /\ sa_args.length = 8
  /\ sa_result = AppReturn(<<"a","b","c","d","e","f","0","1">>)

\* s without the '.git' that ends it, if one does
WithoutGitSuffix(s) ==
  IF EndsWith(s, <<".","g","i","t">>) THEN SubSeq(s, 1, Len(s) - 4) ELSE s

\* C17: get_source_app returns the repository name (the last '/'-separated
\* segment of the URL without the '.git' that ends it) whenever git succeeds
\* with a URL that has one; otherwise the base name of CLAUDE_PROJECT_DIR or
\* of the working directory; 'unknown' only when there is no directory name;
\* and never the empty string.
C17_SourceAppPriority ==
  AppDone("get_source_app") =>
    LET git == sa_args.git
        url == Strip(git.stdout)
        repo == WithoutGitSuffix(LastSegment(url, "/"))
        cwd == IF sa_args.project_dir = Absent THEN sa_args.getcwd
               ELSE sa_args.project_dir.s
        dir == LastSegment(cwd, "/")
    IN /\ sa_result.out = "return"
       /\ sa_result.value # <<>>
       /\ IF git.kind = "completed" /\ git.returncode = 0 /\ url # <<>> /\ repo # <<>>
          THEN sa_result.value = repo
          ELSE IF dir # <<>> THEN sa_result.value = dir
          ELSE sa_result.value = <<"u","n","k","n","o","w","n">>

====
